---- MODULE Spec2Model ----
(***************************************************************************)
(* Model of DetectionService.process_video and its helpers                 *)
(* (Group5_Main/backend_GrpNo.5/detection_service.py).                     *)
(*                                                                         *)
(* One job is a run of process_video.  The job's position is pc; the       *)
(* decoder (cap), the encoder (out), the file system (fs) and the detector *)
(* are the environment the code talks to.  A frame is abstracted to its    *)
(* index in the source and to what the detector sees on it (a number of    *)
(* persons, or DetFail when the inference raises).  A bounding box is the  *)
(* pair <<anchor frame index, ordinal>>, so that detections computed on    *)
(* different frames are different values.  A path is the sequence of its   *)
(* pieces, extensions being pieces of their own: <<"out", ".mp4">>.        *)
(* Percentages and averages are kept in hundredths (the code rounds them   *)
(* to two decimals).                                                       *)
(***************************************************************************)
EXTENDS Integers, Sequences, FiniteSets, TLC

\* ---------------------------------------------------------------- bounds
MaxFrames == 4
MaxInterval == 3
MaxDet == 2
FrameWidth == 100
FrameHeight == 100
\* image sides are the multiples of SideStep, up to MaxSideSteps of them,
\* and an image shows up to MaxPersons persons
SideStep == 37
MaxSideSteps == 6
MaxPersons == 8

\* ------------------------------------------------------------- constants
PersonArea == 7500
SliceLimit == 100

DetFail == -1
FrameKinds == (0..MaxDet) \cup {DetFail}
FpsValues == {0, 10}
NoPath == << >>
OutputPaths == {NoPath, <<"out", ".mp4">>, <<"out", ".avi">>, <<"out", ".mov">>,
                <<"clip", ".mp4", ".mp4">>}
WriteOutcomes == {"ok", "raises"}
OpenOutcomes == {"opened", "not_opened", "raises"}
TranscodeModes == {"unavailable", "ok", "nonzero_partial", "nonzero_none",
                   "timeout_partial", "timeout_none", "empty", "missing",
                   "exception_partial", "exception_none"}

\* ------------------------------------------------------------ path helpers
\* str.endswith(ext)
EndsWith(p, ext) == Len(p) > 0 /\ p[Len(p)] = ext

\* str.replace(old, new): every occurrence of the piece old becomes the pieces new
RECURSIVE Replace(_, _, _)
Replace(p, old, new) ==
    IF p = << >> THEN << >>
    ELSE (IF Head(p) = old THEN new ELSE <<Head(p)>>) \o Replace(Tail(p), old, new)

\* --------------------------------------------------------- file system
NoFiles == [q \in {} |-> "raw"]
Exists(f, p) == p \in DOMAIN f
WriteFile(f, p, c) == [q \in (DOMAIN f) \cup {p} |-> IF q = p THEN c ELSE f[q]]
RemoveFile(f, p) == [q \in (DOMAIN f) \ {p} |-> f[q]]
\* os.path.getsize
GetSize(f, p) == IF f[p] = "empty" THEN 0 ELSE 1
\* os.replace(src, dst): dst takes src's content and src is gone, in one step
OsReplace(f, src, dst) == RemoveFile(WriteFile(f, dst, f[src]), src)

\* ---------------------------------------------------------- arithmetic
Min(a, b) == IF a < b THEN a ELSE b

\* round(num / den) to the nearest integer, ties to even (Python's round)
RoundHalfEven(num, den) ==
    LET q == num \div den
        r == num % den
    IN  IF 2 * r < den THEN q
        ELSE IF 2 * r > den THEN q + 1
        ELSE IF q % 2 = 0 THEN q ELSE q + 1

RECURSIVE SumOver(_, _)
SumOver(s, field) ==
    IF s = << >> THEN 0 ELSE s[1][field] + SumOver(Tail(s), field)

\* ---------------------------------------------------------------- state
VARIABLES
    video,            \* the source: readable, frames it yields, fps, what its frames show
    frame_interval,   \* argument of process_video
    requested_path,   \* argument output_path as the caller gave it
    pc,               \* position of the job in process_video
    cap,              \* the decoder handle: [opened]
    total_frames,     \* CAP_PROP_FRAME_COUNT
    frame_detections, \* the FrameResults, in order
    total_persons,
    frame_count,
    out,              \* the encoder handle, NoWriter when None
    used_codec,
    output_path,      \* the local output_path, rewritten by the negotiation
    codec_idx,        \* position in fourcc_options
    attempts,         \* the candidates a writer was constructed for, in order
    last_detections,
    written,          \* the frames handed to out.write, in order
    fs,               \* files on disk: path -> content
    detector_calls,   \* number of inferences run
    detector_log,     \* what the detector saw at each inference, DetFail when it raised
    transcode_modes,  \* what the transcoder did at each call of _reencode_to_h264
    pre_transcode,    \* fs and output_path when the writer was released
    result,           \* what process_video returned
    other             \* the locals of a second job on the same instance, while it is not running

vars == <<video, frame_interval, requested_path, pc, cap, total_frames,
          frame_detections, total_persons, frame_count, out, used_codec,
          output_path, codec_idx, attempts, last_detections, written, fs,
          detector_calls, detector_log, transcode_modes, pre_transcode, result,
          other>>

\* mutant: the density is not clamped at 100
Density_Unclamped(person_count, frame_area) ==
    RoundHalfEven(person_count * PersonArea * 100 * 100, frame_area)

\* ------------------------------------------------ process_video_frame
\* density_percentage of a frame, in hundredths of a percent
Density(person_count, frame_area) ==
    RoundHalfEven(Min(100 * 100 * frame_area, person_count * PersonArea * 100 * 100),
                  frame_area)

\* the boxes the detector returns on frame idx showing n persons
Boxes(idx, n) == [j \in 1..n |-> <<idx, j>>]

\* A frame as it reaches the writer: the source frame it derives from, the
\* rectangles drawn on it and the number of text labels drawn on it.
RawFrame(idx) == [src |-> idx, boxes |-> << >>, labels |-> 0]

\* process_video_frame(frame): the result dictionary.  has_annotated says
\* whether the key 'annotated_frame' is present; error whether 'error' is.
ProcessVideoFrame(idx, kind, frame_area) ==
    IF kind = DetFail
    THEN [person_count |-> 0, density_percentage |-> 0, detections |-> << >>,
          has_annotated |-> FALSE,
          annotated_frame |-> RawFrame(idx), error |-> TRUE]
    ELSE [person_count |-> kind,
          density_percentage |-> Density(kind, frame_area),
          detections |-> Boxes(idx, kind),
          has_annotated |-> TRUE,
          annotated_frame |-> [src |-> idx, boxes |-> Boxes(idx, kind), labels |-> 0],
          error |-> FALSE]

\* detect_persons(image_path): the result dictionary for an image file that
\* is readable or not, shows kind persons and has the given shape.  The
\* annotated image carries one rectangle and one label per box.
DetectPersons(readable, kind, shape) ==
    IF ~readable \/ kind = DetFail
    THEN [person_count |-> 0, density_percentage |-> 0, detections |-> << >>,
          error |-> TRUE]
    ELSE [person_count |-> kind,
          density_percentage |-> Density(kind, shape[1] * shape[2]),
          detections |-> Boxes(0, kind),
          annotated_image |-> [src |-> 0, boxes |-> Boxes(0, kind), labels |-> kind],
          image_shape |-> shape,
          error |-> FALSE]

\* ------------------------------------------------------- process_video
\* the anchor test of the frame loop
IsAnchor(count, interval) == count % interval = 0

\* last_detections: None until the first anchor, then the anchor's list
NoDetections == [set |-> FALSE, dets |-> << >>]

\* mutant: the list is stored at the first anchor only
StoreLastDetections_FirstOnly(res) ==
    IF last_detections.set THEN last_detections
    ELSE [set |-> TRUE, dets |-> res.detections]

\* result.get('detections', [])
StoreLastDetections(res) == [set |-> TRUE, dets |-> res.detections]

\* result.get('annotated_frame', frame)
LastAnnotatedFrame(res, idx) ==
    IF res.has_annotated THEN res.annotated_frame ELSE RawFrame(idx)

\* mutant: intermediate frames are written as decoded
AnnotateIntermediate_Raw(idx, last) == RawFrame(idx)

\* the frame written for an intermediate frame
AnnotateIntermediate(idx, last) ==
    IF last.set /\ Len(last.dets) > 0
    THEN [src |-> idx, boxes |-> last.dets, labels |-> Len(last.dets)]
    ELSE RawFrame(idx)

\* mutant: the FrameResult does not keep the 'error' entry of the frame's result
FrameResult_DropsError(res, count, fps) ==
    [frame_number |-> count,
     timestamp |-> <<count, fps>>,
     person_count |-> res.person_count,
     density_percentage |-> res.density_percentage,
     detections |-> res.detections,
     error |-> FALSE]

\* the FrameResult appended for an anchor frame
FrameResult(res, count, fps) ==
    [frame_number |-> count,
     timestamp |-> <<count, fps>>,
     person_count |-> res.person_count,
     density_percentage |-> res.density_percentage,
     detections |-> res.detections,
     error |-> res.error]

\* --------------------------------------------------- codec negotiation
fourcc_options == <<"mp4v", "XVID", "MJPG", "avc1", "H264">>

\* the path a candidate's writer is created with
TempPath(codec_name, path) ==
    IF codec_name = "MJPG" /\ ~EndsWith(path, ".avi")
    THEN Replace(path, ".mp4", <<".avi">>)
    ELSE path

NoWriter == [present |-> FALSE, opened |-> FALSE, path |-> NoPath, codec |-> "none"]
Writer(path, codec_name) ==
    [present |-> TRUE, opened |-> TRUE, path |-> path, codec |-> codec_name]

\* mutant: the rewritten path is not stored back
PathAfterOpen_Stale(temp_path, path) == path

\* output_path after a candidate opened with temp_path
PathAfterOpen(temp_path, path) == IF temp_path # path THEN temp_path ELSE path

\* mutant: a failed candidate makes the loop skip the next one
NextCandidate_Skip(idx) == idx + 2

\* the candidate tried after candidate idx failed
NextCandidate(idx) == idx + 1

\* --------------------------------------------------- _reencode_to_h264
\* What the external transcoder leaves at the temporary path before it ends
\* (or is killed): "absent" when it writes nothing.
TranscoderOutput(mode) ==
    CASE mode = "ok" -> "h264"
      [] mode \in {"nonzero_partial", "timeout_partial", "exception_partial"} -> "partial"
      [] mode = "empty" -> "empty"
      [] OTHER -> "absent"

\* result.returncode of the subprocess
ReturnCode(mode) == IF mode \in {"ok", "empty", "missing"} THEN 0 ELSE 1

\* the exception the body of _reencode_to_h264 raises, "none" if it raises none
Raised(mode) ==
    CASE mode = "unavailable" -> "ImportError"
      [] mode \in {"timeout_partial", "timeout_none"} -> "TimeoutExpired"
      [] mode \in {"exception_partial", "exception_none"} -> "Exception"
      [] OTHER -> "none"

\* input_path.replace('.mp4', '_h264.mp4')
H264TempPath(input_path) == Replace(input_path, ".mp4", <<"_h264", ".mp4">>)

\* mutant: the partial output is left behind
CleanUp_None(f, temp_path) == f

\* if os.path.exists(temp_path): os.remove(temp_path)
CleanUp(f, temp_path) == IF Exists(f, temp_path) THEN RemoveFile(f, temp_path) ELSE f

\* mutant: the size of the output is not looked at
ReencodeSucceeded_NoSizeCheck(f, temp_path, mode) ==
    ReturnCode(mode) = 0 /\ Exists(f, temp_path)

\* the success test of the re-encode
ReencodeSucceeded(f, temp_path, mode) ==
    ReturnCode(mode) = 0 /\ Exists(f, temp_path) /\ GetSize(f, temp_path) > 0

\* mutant: the ImportError branch falls off the end and returns None
ReencodeToH264_NoReturn(f, input_path, mode) ==
    LET temp_path == H264TempPath(input_path)
        ran == IF TranscoderOutput(mode) = "absent" THEN f
               ELSE WriteFile(f, temp_path, TranscoderOutput(mode))
    IN  CASE Raised(mode) = "ImportError" -> [fs |-> f, path |-> NoPath]
          [] Raised(mode) \in {"TimeoutExpired", "Exception"} ->
                [fs |-> CleanUp(ran, temp_path), path |-> input_path]
          [] OTHER ->
                IF ReturnCode(mode) = 0 /\ Exists(ran, temp_path)
                   /\ GetSize(ran, temp_path) > 0
                THEN [fs |-> OsReplace(ran, temp_path, input_path), path |-> input_path]
                ELSE [fs |-> CleanUp(ran, temp_path), path |-> input_path]

\* _reencode_to_h264(input_path, ...): the file system it leaves and the path
\* it returns, the transcoder behaving as mode says
ReencodeToH264(f, input_path, mode) ==
    LET temp_path == H264TempPath(input_path)
        ran == IF TranscoderOutput(mode) = "absent" THEN f
               ELSE WriteFile(f, temp_path, TranscoderOutput(mode))
    IN  CASE Raised(mode) = "ImportError" -> [fs |-> f, path |-> input_path]
          [] Raised(mode) = "TimeoutExpired" ->
                [fs |-> CleanUp(ran, temp_path), path |-> input_path]
          [] Raised(mode) = "Exception" ->
                [fs |-> CleanUp(ran, temp_path), path |-> input_path]
          [] OTHER ->
                IF ReencodeSucceeded(ran, temp_path, mode)
                THEN [fs |-> OsReplace(ran, temp_path, input_path), path |-> input_path]
                ELSE [fs |-> CleanUp(ran, temp_path), path |-> input_path]

\* mutant: the extension of the written file is not looked at
WantsReencode_AnyExtension(writer, f, path) == writer.present /\ Exists(f, path)

\* whether process_video calls _reencode_to_h264 after releasing the writer
WantsReencode(writer, f, path) ==
    writer.present /\ Exists(f, path) /\ EndsWith(path, ".mp4")

\* ------------------------------------------------------------ results
\* mutant: the except branch reports how far the job had come
ErrorResult_KeepsCounts(kind) ==
    [error |-> kind, total_frames |-> total_frames,
     processed_frames |-> Len(frame_detections)]

\* the dictionary of the except branch of process_video
ErrorResult(kind) == [error |-> kind, total_frames |-> 0, processed_frames |-> 0]

\* mutant: the average is cut to two decimals instead of rounded
AveragePersonCount_Truncated(total, results) ==
    IF Len(results) > 0 THEN (total * 100) \div Len(results) ELSE 0

AveragePersonCount(total, results) ==
    IF Len(results) > 0 THEN RoundHalfEven(total * 100, Len(results)) ELSE 0

AverageDensity(results) ==
    IF Len(results) > 0
    THEN RoundHalfEven(SumOver(results, "density_percentage"), Len(results))
    ELSE 0

\* the dictionary process_video returns at its normal end
JobResult(total, results, persons, path, f) ==
    [total_frames |-> total,
     processed_frames |-> Len(results),
     average_person_count |-> AveragePersonCount(persons, results),
     average_density |-> AverageDensity(results),
     frame_detections |-> SubSeq(results, 1, Min(Len(results), SliceLimit)),
     output_video |-> path,
     output_exists |-> IF path # NoPath THEN Exists(f, path) ELSE FALSE]

NoResult == [pending |-> TRUE]
HasError(r) == "error" \in DOMAIN r
IsJobResult(r) == "output_video" \in DOMAIN r

\* ---------------------------------------------------------------- jobs
FrameArea == FrameWidth * FrameHeight

\* The source of the end-to-end scenario: 100 frames at fps 10, every frame
\* showing one person; the scenario runs it with frame_interval 5.
ScenarioVideo == [readable |-> TRUE, frames |-> 100, fps |-> 10, scene |-> {1}]

Intervals == (1..MaxInterval) \cup {5}

\* the sources: an unreadable one, every short one, and the scenario's
Videos ==
    {[readable |-> FALSE, frames |-> 0, fps |-> 0, scene |-> FrameKinds]}
    \cup [readable : {TRUE}, frames : 0..MaxFrames, fps : FpsValues, scene : {FrameKinds}]
    \cup {ScenarioVideo}

\* the state at the call of process_video, given the inputs
Start(v, interval, path) ==
    /\ video = v
    /\ frame_interval = interval
    /\ requested_path = path
    /\ pc = "open_source"
    /\ cap = [opened |-> FALSE]
    /\ total_frames = 0
    /\ frame_detections = << >>
    /\ total_persons = 0
    /\ frame_count = 0
    /\ out = NoWriter
    /\ used_codec = "none"
    /\ output_path = path
    /\ codec_idx = 1
    /\ attempts = << >>
    /\ last_detections = NoDetections
    /\ written = << >>
    /\ fs = NoFiles
    /\ detector_calls = 0
    /\ detector_log = << >>
    /\ transcode_modes = << >>
    /\ pre_transcode = [fs |-> NoFiles, path |-> NoPath]
    /\ result = NoResult

\* no second job
NoJob == [pc |-> "none"]

Init == \E v \in Videos, interval \in Intervals, path \in OutputPaths :
            Start(v, interval, path) /\ other = NoJob

\* the except branch: the job ends with an error dictionary
Raise(kind) ==
    /\ result' = ErrorResult(kind)
    /\ pc' = "done"

\* ---------------------------------------------------------------- actions
\* mutant: cap.isOpened() is not tested
OpenSource_NoOpenedTest ==
    /\ pc = "open_source"
    /\ cap' = [opened |-> video.readable]
    /\ total_frames' = video.frames
    /\ pc' = IF output_path # NoPath THEN "negotiate" ELSE "loop"
    /\ UNCHANGED <<other, video, frame_interval, requested_path, frame_detections,
                   total_persons, frame_count, out, used_codec, output_path,
                   codec_idx, attempts, last_detections, written, fs,
                   detector_calls, detector_log, transcode_modes,
                   pre_transcode, result>>

\* cap = cv2.VideoCapture(video_path); the metadata reads; the locals
OpenSource ==
    /\ pc = "open_source"
    /\ IF ~video.readable
       THEN /\ Raise("SourceUnreadable")
            /\ UNCHANGED <<cap, total_frames>>
       ELSE /\ cap' = [opened |-> TRUE]
            /\ total_frames' = video.frames
            /\ pc' = IF output_path # NoPath THEN "negotiate" ELSE "loop"
            /\ UNCHANGED result
    /\ UNCHANGED <<other, video, frame_interval, requested_path, frame_detections,
                   total_persons, frame_count, out, used_codec, output_path,
                   codec_idx, attempts, last_detections, written, fs,
                   detector_calls, detector_log, transcode_modes, pre_transcode>>

\* one iteration of the loop over fourcc_options
TryCodec ==
    /\ pc = "negotiate"
    /\ codec_idx <= Len(fourcc_options)
    /\ \E outcome \in OpenOutcomes :
        LET codec_name == fourcc_options[codec_idx]
            temp_path == TempPath(codec_name, output_path)
        IN  /\ attempts' = Append(attempts, [codec |-> codec_name, path |-> temp_path])
            /\ IF outcome = "opened"
               THEN /\ out' = Writer(temp_path, codec_name)
                    /\ used_codec' = codec_name
                    /\ output_path' = PathAfterOpen(temp_path, output_path)
                    /\ pc' = "loop"
                    /\ UNCHANGED codec_idx
               ELSE /\ out' = NoWriter
                    /\ codec_idx' = NextCandidate(codec_idx)
                    /\ UNCHANGED <<used_codec, output_path, pc>>
    /\ UNCHANGED <<other, video, frame_interval, requested_path, cap, total_frames,
                   frame_detections, total_persons, frame_count,
                   last_detections, written, fs, detector_calls, detector_log,
                   transcode_modes, pre_transcode, result>>

\* mutant: the check after the loop is missing, the job goes on without a writer
NoUsableEncoder_GoesOn ==
    /\ pc = "negotiate"
    /\ codec_idx > Len(fourcc_options)
    /\ pc' = "loop"
    /\ UNCHANGED <<other, video, frame_interval, requested_path, cap, total_frames,
                   frame_detections, total_persons, frame_count, out,
                   used_codec, output_path, codec_idx, attempts,
                   last_detections, written, fs, detector_calls, detector_log,
                   transcode_modes, pre_transcode, result>>

\* every candidate failed: the check after the loop raises
NoUsableEncoder ==
    /\ pc = "negotiate"
    /\ codec_idx > Len(fourcc_options)
    /\ ~(out.present /\ out.opened)
    /\ Raise("NoUsableEncoder")
    /\ UNCHANGED <<other, video, frame_interval, requested_path, cap, total_frames,
                   frame_detections, total_persons, frame_count, out,
                   used_codec, output_path, codec_idx, attempts,
                   last_detections, written, fs, detector_calls, detector_log,
                   transcode_modes, pre_transcode>>

\* out.write(frame), the writer behaving as wr says
WriteFrame(frame, wr) ==
    IF ~out.present
    THEN /\ UNCHANGED <<written, result, pc>>
    ELSE IF wr = "ok"
         THEN /\ written' = Append(written, frame)
              /\ UNCHANGED <<result, pc>>
         ELSE /\ Raise("WriteFailed")
              /\ UNCHANGED written

\* a loop iteration on a frame whose index is a multiple of frame_interval
AnchorFrame ==
    /\ pc = "loop"
    /\ cap.opened
    /\ frame_count < video.frames
    /\ IsAnchor(frame_count + 1, frame_interval)
    /\ \E kind \in video.scene, wr \in WriteOutcomes :
        LET idx == frame_count + 1
            res == ProcessVideoFrame(idx, kind, FrameArea)
        IN  /\ frame_count' = idx
            /\ detector_calls' = detector_calls + 1
            /\ detector_log' = Append(detector_log, kind)
            /\ IF video.fps = 0
               THEN \* result['timestamp'] = frame_count / fps
                    /\ Raise("ZeroDivisionError")
                    /\ UNCHANGED <<frame_detections, total_persons,
                                   last_detections, written>>
               ELSE /\ frame_detections' =
                          Append(frame_detections, FrameResult(res, idx, video.fps))
                    /\ total_persons' = total_persons + res.person_count
                    /\ last_detections' = StoreLastDetections(res)
                    /\ WriteFrame(LastAnnotatedFrame(res, idx), wr)
    /\ UNCHANGED <<other, video, frame_interval, requested_path, cap, total_frames,
                   out, used_codec, output_path, codec_idx, attempts, fs,
                   transcode_modes, pre_transcode>>

\* a loop iteration on any other frame
IntermediateFrame ==
    /\ pc = "loop"
    /\ cap.opened
    /\ frame_count < video.frames
    /\ ~IsAnchor(frame_count + 1, frame_interval)
    /\ \E wr \in WriteOutcomes :
        /\ frame_count' = frame_count + 1
        /\ WriteFrame(AnnotateIntermediate(frame_count + 1, last_detections), wr)
    /\ UNCHANGED <<other, video, frame_interval, requested_path, cap, total_frames,
                   frame_detections, total_persons, out, used_codec,
                   output_path, codec_idx, attempts, last_detections, fs,
                   detector_calls, detector_log, transcode_modes, pre_transcode>>

\* cap.read() returns ret = False: break
EndOfStream ==
    /\ pc = "loop"
    /\ cap.opened
    /\ frame_count = video.frames
    /\ pc' = "release"
    /\ UNCHANGED <<other, video, frame_interval, requested_path, cap, total_frames,
                   frame_detections, total_persons, frame_count, out,
                   used_codec, output_path, codec_idx, attempts,
                   last_detections, written, fs, detector_calls, detector_log,
                   transcode_modes, pre_transcode, result>>

\* cap.release(); out.release().  Releasing the writer finalises the file at
\* the path it was created with; the file may also be missing afterwards.
Release ==
    /\ pc = "release"
    /\ cap' = [opened |-> FALSE]
    /\ IF out.present
       THEN /\ out' = [out EXCEPT !.opened = FALSE]
            /\ \E produced \in BOOLEAN :
                 fs' = IF produced THEN WriteFile(fs, out.path, "raw") ELSE fs
       ELSE UNCHANGED <<out, fs>>
    /\ pre_transcode' = [fs |-> fs', path |-> output_path]
    /\ pc' = "verify"
    /\ UNCHANGED <<other, video, frame_interval, requested_path, total_frames,
                   frame_detections, total_persons, frame_count, used_codec,
                   output_path, codec_idx, attempts, last_detections, written,
                   detector_calls, detector_log, transcode_modes, result>>

\* output_path = self._reencode_to_h264(output_path, fps, width, height)
Reencode ==
    /\ pc = "verify"
    /\ WantsReencode(out, fs, output_path)
    /\ \E mode \in TranscodeModes :
        LET r == ReencodeToH264(fs, output_path, mode)
        IN  /\ fs' = r.fs
            /\ output_path' = r.path
            /\ transcode_modes' = Append(transcode_modes, mode)
    /\ pc' = "summary"
    /\ UNCHANGED <<other, video, frame_interval, requested_path, cap, total_frames,
                   frame_detections, total_persons, frame_count, out,
                   used_codec, codec_idx, attempts, last_detections, written,
                   detector_calls, detector_log, pre_transcode, result>>

\* mutant: the summary is reached without the re-encode having run
SkipReencode_Always ==
    /\ pc = "verify"
    /\ pc' = "summary"
    /\ UNCHANGED <<other, video, frame_interval, requested_path, cap, total_frames,
                   frame_detections, total_persons, frame_count, out,
                   used_codec, output_path, codec_idx, attempts,
                   last_detections, written, fs, detector_calls, detector_log,
                   transcode_modes, pre_transcode, result>>

\* no writer, no file, or a file that is not .mp4: no re-encode
SkipReencode ==
    /\ pc = "verify"
    /\ ~WantsReencode(out, fs, output_path)
    /\ pc' = "summary"
    /\ UNCHANGED <<other, video, frame_interval, requested_path, cap, total_frames,
                   frame_detections, total_persons, frame_count, out,
                   used_codec, output_path, codec_idx, attempts,
                   last_detections, written, fs, detector_calls, detector_log,
                   transcode_modes, pre_transcode, result>>

\* mutant: a job without FrameResults is turned into an error
Summarize_RaisesOnEmpty ==
    /\ pc = "summary"
    /\ IF frame_detections = << >>
       THEN Raise("NoFrames")
       ELSE /\ result' = JobResult(total_frames, frame_detections, total_persons,
                                   output_path, fs)
            /\ pc' = "done"
    /\ UNCHANGED <<other, video, frame_interval, requested_path, cap, total_frames,
                   frame_detections, total_persons, frame_count, out,
                   used_codec, output_path, codec_idx, attempts,
                   last_detections, written, fs, detector_calls, detector_log,
                   transcode_modes, pre_transcode>>

\* the averages and the returned dictionary
Summarize ==
    /\ pc = "summary"
    /\ result' = JobResult(total_frames, frame_detections, total_persons,
                           output_path, fs)
    /\ pc' = "done"
    /\ UNCHANGED <<other, video, frame_interval, requested_path, cap, total_frames,
                   frame_detections, total_persons, frame_count, out,
                   used_codec, output_path, codec_idx, attempts,
                   last_detections, written, fs, detector_calls, detector_log,
                   transcode_modes, pre_transcode>>

Next ==
    \/ OpenSource
    \/ TryCodec
    \/ NoUsableEncoder
    \/ AnchorFrame
    \/ IntermediateFrame
    \/ EndOfStream
    \/ Release
    \/ Reencode
    \/ SkipReencode
    \/ Summarize

Spec == Init /\ [][Next]_vars

\* ------------------------------------- two jobs on one DetectionService
\* Two calls of process_video run interleaved on the module-level
\* detection_service.  Everything process_video works on is a local of the
\* call; the instance holds the detector only, and the files are shared.
\* The variables hold the locals of the job that is running, other those of
\* the job that is not.
Running ==
    [video |-> video, frame_interval |-> frame_interval,
     requested_path |-> requested_path, pc |-> pc, cap |-> cap,
     total_frames |-> total_frames, frame_detections |-> frame_detections,
     total_persons |-> total_persons, frame_count |-> frame_count, out |-> out,
     used_codec |-> used_codec, output_path |-> output_path,
     codec_idx |-> codec_idx, attempts |-> attempts,
     last_detections |-> last_detections, written |-> written,
     detector_calls |-> detector_calls, detector_log |-> detector_log,
     transcode_modes |-> transcode_modes, pre_transcode |-> pre_transcode,
     result |-> result]

\* the locals of a job at its call
Called(v, interval, path) ==
    [video |-> v, frame_interval |-> interval, requested_path |-> path,
     pc |-> "open_source", cap |-> [opened |-> FALSE], total_frames |-> 0,
     frame_detections |-> << >>, total_persons |-> 0, frame_count |-> 0,
     out |-> NoWriter, used_codec |-> "none", output_path |-> path,
     codec_idx |-> 1, attempts |-> << >>, last_detections |-> NoDetections,
     written |-> << >>, detector_calls |-> 0, detector_log |-> << >>,
     transcode_modes |-> << >>,
     pre_transcode |-> [fs |-> NoFiles, path |-> NoPath], result |-> NoResult]

\* the two uploads: as many frames each, showing different numbers of persons
JobVideo(scene) == [readable |-> TRUE, frames |-> MaxFrames, fps |-> 10, scene |-> scene]
FirstJobScene == {1}
SecondJobScene == {MaxDet, DetFail}
JobIntervals == {MaxInterval - 1}
JobPaths == {<<"out", ".mp4">>}

TwoJobsInit ==
    \E i1 \in JobIntervals, i2 \in JobIntervals, p1 \in JobPaths, p2 \in JobPaths :
        /\ Start(JobVideo(FirstJobScene), i1, p1)
        /\ other = Called(JobVideo(SecondJobScene), i2, p2)

\* mutant: the last known detections are kept on the instance, not in the job
Switch_SharedLastDetections ==
    /\ other # NoJob
    /\ other' = Running
    /\ video' = other.video
    /\ frame_interval' = other.frame_interval
    /\ requested_path' = other.requested_path
    /\ pc' = other.pc
    /\ cap' = other.cap
    /\ total_frames' = other.total_frames
    /\ frame_detections' = other.frame_detections
    /\ total_persons' = other.total_persons
    /\ frame_count' = other.frame_count
    /\ out' = other.out
    /\ used_codec' = other.used_codec
    /\ output_path' = other.output_path
    /\ codec_idx' = other.codec_idx
    /\ attempts' = other.attempts
    /\ written' = other.written
    /\ detector_calls' = other.detector_calls
    /\ detector_log' = other.detector_log
    /\ transcode_modes' = other.transcode_modes
    /\ pre_transcode' = other.pre_transcode
    /\ result' = other.result
    /\ UNCHANGED <<last_detections, fs>>

\* the scheduler lets the other job run: its locals come back as it left
\* them, the files stay
Switch ==
    /\ other # NoJob
    /\ other' = Running
    /\ video' = other.video
    /\ frame_interval' = other.frame_interval
    /\ requested_path' = other.requested_path
    /\ pc' = other.pc
    /\ cap' = other.cap
    /\ total_frames' = other.total_frames
    /\ frame_detections' = other.frame_detections
    /\ total_persons' = other.total_persons
    /\ frame_count' = other.frame_count
    /\ out' = other.out
    /\ used_codec' = other.used_codec
    /\ output_path' = other.output_path
    /\ codec_idx' = other.codec_idx
    /\ attempts' = other.attempts
    /\ last_detections' = other.last_detections
    /\ written' = other.written
    /\ detector_calls' = other.detector_calls
    /\ detector_log' = other.detector_log
    /\ transcode_modes' = other.transcode_modes
    /\ pre_transcode' = other.pre_transcode
    /\ result' = other.result
    /\ UNCHANGED fs

TwoJobsNext ==
    \/ OpenSource
    \/ TryCodec
    \/ NoUsableEncoder
    \/ AnchorFrame
    \/ IntermediateFrame
    \/ EndOfStream
    \/ Release
    \/ Reencode
    \/ SkipReencode
    \/ Summarize
    \/ Switch

TwoJobsSpec == TwoJobsInit /\ [][TwoJobsNext]_vars

\* ================================================================ claims
Done == pc = "done"
\* the greatest multiple of frame_interval that is <= i (0 when there is none)
GreatestAnchor(i) == (i \div frame_interval) * frame_interval
\* the FrameResult stored for anchor frame a
ResultAt(a) == frame_detections[a \div frame_interval]

\* C1: process_video appends one FrameResult for each frame index that is a
\* multiple of frame_interval and none for any other index, so that after
\* frame_count frames there are floor(frame_count / frame_interval) of them,
\* and a job result reports processed_frames = floor(N / frame_interval).
C1_OneResultPerAnchor ==
    /\ Len(frame_detections) = frame_count \div frame_interval
    /\ \A k \in 1..Len(frame_detections) :
          frame_detections[k].frame_number = k * frame_interval
    /\ IsJobResult(result) =>
          result.processed_frames = video.frames \div frame_interval

\* C1, for sources whose frame rate is at least 1: the same statement.
C1_WhenFpsPositive == video.fps >= 1 => C1_OneResultPerAnchor

\* C1, the case the code gets wrong: a source that reports fps 0 has yielded
\* an anchor frame and no FrameResult was appended for it.
C1_FpsZeroLosesAnchor ==
    /\ video.fps = 0
    /\ frame_count >= frame_interval
    /\ Len(frame_detections) = 0

\* C2: every non-anchor frame written carries exactly the DetectionSet stored
\* for the greatest anchor index at or before it, and no box at all when no
\* anchor has occurred yet; no box computed on a later frame is ever drawn.
C2_Propagation ==
    \A k \in 1..Len(written) :
        LET w == written[k]
            a == GreatestAnchor(w.src)
        IN  ~IsAnchor(w.src, frame_interval) =>
              /\ IF a = 0 THEN w.boxes = << >>
                 ELSE w.boxes = ResultAt(a).detections
              /\ \A j \in 1..Len(w.boxes) : w.boxes[j][1] = a /\ w.boxes[j][1] <= w.src

\* C2 witness: a non-anchor frame after the second anchor was written with
\* the boxes of the second anchor.
C2_Witness ==
    \E k \in 1..Len(written) :
        /\ ~IsAnchor(written[k].src, frame_interval)
        /\ GreatestAnchor(written[k].src) = 2 * frame_interval
        /\ Len(written[k].boxes) > 0

InScenario ==
    /\ video = ScenarioVideo
    /\ frame_interval = 5
    /\ requested_path # NoPath

\* C3 as stated: in the scenario every written frame (the frames before the
\* first anchor included) carries exactly one box, and the job result has
\* processed_frames = 20 and average_person_count = 1.0 with 100 frames written.
C3_EveryFrameOneBox ==
    InScenario =>
        /\ \A k \in 1..Len(written) : Len(written[k].boxes) = 1
        /\ IsJobResult(result) =>
              /\ result.processed_frames = 20
              /\ result.average_person_count = 100
              /\ Len(written) = 100

\* C3 amended: in the scenario the job result has processed_frames = 20 and
\* average_person_count = 1.0, all 100 frames are written, every frame from
\* the first anchor (frame 5) on carries exactly one box and the four frames
\* before it carry none.
C3_OneBoxFromFirstAnchor ==
    InScenario =>
        /\ \A k \in 1..Len(written) :
              /\ written[k].src = k
              /\ Len(written[k].boxes) = IF k >= 5 THEN 1 ELSE 0
        /\ IsJobResult(result) =>
              /\ result.processed_frames = 20
              /\ result.average_person_count = 100
              /\ Len(written) = 100

\* C3 witness: the scenario ran to its job result, 100 frames written.
C3_Witness == InScenario /\ IsJobResult(result) /\ Len(written) = 100

\* C4: the candidates are tried in list order; once candidate K+1 opens after
\* K failures, the job's writer is the one created with it, used_codec names
\* it, and no later candidate is ever attempted.
C4_FirstThatOpens ==
    /\ Len(attempts) <= Len(fourcc_options)
    /\ \A k \in 1..Len(attempts) : attempts[k].codec = fourcc_options[k]
    /\ out.present =>
          /\ out.codec = fourcc_options[Len(attempts)]
          /\ used_codec = out.codec
          /\ out.path = attempts[Len(attempts)].path
          /\ codec_idx = Len(attempts)
    /\ ~out.present => used_codec = "none"

\* C4 witness: two candidates failed, the third opened and frames were written.
C4_Witness == out.present /\ Len(attempts) = 3 /\ Len(written) > 0

\* C5: when every candidate has failed the job ends with an error result,
\* having read no frame, run no inference and written no frame.
C5_NoEncoderFailsJob ==
    codec_idx > Len(fourcc_options) =>
        /\ ~out.present
        /\ frame_count = 0
        /\ detector_calls = 0
        /\ written = << >>
        /\ pc \in {"negotiate", "done"}
        /\ Done => HasError(result) /\ result.error = "NoUsableEncoder"

\* C5 witness: all five candidates were tried, none opened, the job returned.
C5_Witness == Done /\ Len(attempts) = Len(fourcc_options) /\ ~out.present /\ HasError(result)

\* C6: the path process_video reports and tests for existence is the path the
\* opened writer was created with; it differs from the requested path only
\* when MJPG is the candidate that opened (.mp4 rewritten to .avi), and a
\* failed MJPG attempt leaves the path unchanged.
C6_ReportedPathIsWriterPath ==
    /\ out.present => output_path = out.path
    /\ ~out.present => output_path = requested_path
    /\ output_path # requested_path =>
          /\ used_codec = "MJPG"
          /\ output_path = Replace(requested_path, ".mp4", <<".avi">>)
    /\ used_codec # "MJPG" => output_path = requested_path
    /\ (IsJobResult(result) /\ out.present) =>
          /\ result.output_video = out.path
          /\ result.output_exists = Exists(fs, out.path)

\* C6 witness: MJPG opened for a .mp4 request and the job returned the .avi path.
C6_Witness ==
    /\ IsJobResult(result)
    /\ used_codec = "MJPG"
    /\ result.output_video # requested_path
    /\ result.output_exists

LastMode == transcode_modes[Len(transcode_modes)]
Reencoded == Len(transcode_modes) > 0
FailureModes == TranscodeModes \ {"ok"}

\* C7: after _reencode_to_h264 has failed in any way, the pre-transcode file
\* is in place with its content unchanged, no '_h264' temporary file is left,
\* the original path is returned, and the job returns a result without 'error'.
C7_FailedReencodeKeepsOriginal ==
    (Reencoded /\ LastMode \in FailureModes) =>
        /\ Exists(fs, pre_transcode.path)
        /\ fs[pre_transcode.path] = pre_transcode.fs[pre_transcode.path]
        /\ ~Exists(fs, H264TempPath(pre_transcode.path))
        /\ fs = pre_transcode.fs
        /\ output_path = pre_transcode.path
        /\ Done => IsJobResult(result) /\ ~HasError(result)

\* C7 witness: the transcoder timed out leaving a partial file, and the job returned.
C7_Witness == Done /\ Reencoded /\ LastMode = "timeout_partial"

\* C8: once the writer has been released, with the transcoder unavailable
\* (the re-encode is either not called or ends in its ImportError branch) the
\* job result's output path is the path the writer wrote to, output_exists is
\* true exactly when the pre-transcode file exists, and the result has no 'error'.
C8_UnavailableTranscoder ==
    (pc \in {"summary", "done"} /\ out.present /\ ~out.opened
       /\ (~Reencoded \/ LastMode = "unavailable")) =>
        /\ output_path = out.path
        /\ output_path = pre_transcode.path
        /\ Done =>
              /\ IsJobResult(result) /\ ~HasError(result)
              /\ result.output_video = out.path
              /\ result.output_exists = Exists(pre_transcode.fs, out.path)

\* C8 witness: the re-encode was called, the transcoder was unavailable, and
\* the job returned the written file.
C8_Witness ==
    Done /\ Reencoded /\ LastMode = "unavailable" /\ result.output_exists

\* C9: when the transcoder exits with status zero and a non-empty output, the
\* file at the original path holds the transcoded content, the temporary file
\* is gone and the original path is returned; in every other case the
\* original file's content is what the writer left.
C9_ReplaceOnlyOnSuccess ==
    /\ (Reencoded /\ LastMode = "ok") =>
          /\ fs = [pre_transcode.fs EXCEPT ![pre_transcode.path] = "h264"]
          /\ ~Exists(fs, H264TempPath(pre_transcode.path))
          /\ output_path = pre_transcode.path
    /\ (pc \in {"verify", "summary", "done"} /\ ~(Reencoded /\ LastMode = "ok")
          /\ Exists(pre_transcode.fs, pre_transcode.path)) =>
          /\ Exists(fs, pre_transcode.path)
          /\ fs[pre_transcode.path] = "raw"

\* C9 witness: the transcode succeeded and the job reports the replaced file.
C9_Witness ==
    /\ Done /\ Reencoded /\ LastMode = "ok"
    /\ result.output_exists
    /\ fs[result.output_video] = "h264"

\* C10: if a write to the opened writer fails, the job is reported as failed,
\* the writer handle is closed, and the returned result carries the count and
\* the averages of the FrameResults collected before the failure.
C10_WriteFailureStillAggregates ==
    (Done /\ HasError(result) /\ result.error = "WriteFailed") =>
        /\ ~out.opened
        /\ result.processed_frames = Len(frame_detections)
        /\ "average_person_count" \in DOMAIN result
        /\ "average_density" \in DOMAIN result

\* C10, what the code does on a failed write: the job ends at once with the
\* error result (no later frame is read or written), and neither the decoder
\* nor the writer has been released.
C10_WriteFailureAborts ==
    (Done /\ HasError(result) /\ result.error = "WriteFailed") =>
        /\ Len(written) = frame_count - 1
        /\ result = ErrorResult("WriteFailed")
        /\ cap.opened
        /\ out.opened

\* the inferences that raised, by their position in detector_log
FailedCalls == {c \in 1..Len(detector_log) : detector_log[c] = DetFail}
WriteFailed == HasError(result) /\ result.error = "WriteFailed"

\* C11: a detector failure on an anchor frame is neither retried nor fatal:
\* the frame gets a FrameResult with person_count 0 and no detections, the
\* empty set becomes the last known one (the non-anchor frames that follow
\* are written without boxes), the frame itself is written as decoded, and
\* the loop goes on (the job ends in error only if a write fails).
C11_DetectorFailureAbsorbed ==
    /\ detector_calls = Len(detector_log)
    /\ detector_calls = frame_count \div frame_interval
    /\ \A c \in FailedCalls :
        LET a == c * frame_interval
        IN  /\ Len(frame_detections) >= c
            /\ frame_detections[c].frame_number = a
            /\ frame_detections[c].person_count = 0
            /\ frame_detections[c].detections = << >>
            /\ (c = Len(detector_log)) => last_detections = [set |-> TRUE, dets |-> << >>]
            /\ (out.present /\ ~WriteFailed) => Len(written) = frame_count
            /\ \A k \in 1..Len(written) :
                  (written[k].src >= a /\ written[k].src < a + frame_interval) =>
                      written[k] = RawFrame(written[k].src)
            /\ HasError(result) => result.error = "WriteFailed"

\* C11, for sources whose frame rate is at least 1: the same statement.
C11_WhenFpsPositive == video.fps >= 1 => C11_DetectorFailureAbsorbed

\* C11, the case the code gets wrong: the detector failed on the first anchor
\* of a source that reports fps 0, and the job ended without a FrameResult.
C11_FpsZeroAborts ==
    /\ video.fps = 0
    /\ detector_log = <<DetFail>>
    /\ frame_detections = << >>
    /\ Done /\ HasError(result)

\* C12 as stated: a detector failure makes the job return an error result.
C12_DetectorFailureFailsJob ==
    (Done /\ FailedCalls # {}) => HasError(result)

\* C12 amended: a detector failure is not propagated as a job-level error.
\* It is recorded in the frame's own FrameResult ('error', person_count 0, no
\* detections); whenever the job does return an error it has another cause
\* (unreadable source, no encoder, fps 0, failed write); a job result counts
\* every FrameResult; and a FrameResult once stored is never discarded or altered.
C12_FailureStaysInFrameResult ==
    /\ [](/\ \A c \in 1..Len(frame_detections) :
                /\ frame_detections[c].error = (detector_log[c] = DetFail)
                /\ frame_detections[c].error =>
                      /\ frame_detections[c].person_count = 0
                      /\ frame_detections[c].detections = << >>
          /\ HasError(result) =>
                \/ result.error = "SourceUnreadable" /\ ~video.readable
                \/ result.error = "NoUsableEncoder" /\ ~out.present /\ requested_path # NoPath
                \/ result.error = "ZeroDivisionError" /\ video.fps = 0
                \/ result.error = "WriteFailed" /\ out.present /\ Len(written) < frame_count
          /\ IsJobResult(result) =>
                /\ result.processed_frames = Len(frame_detections)
                /\ result.frame_detections =
                      SubSeq(frame_detections, 1, Min(Len(frame_detections), SliceLimit)))
    /\ [][/\ Len(frame_detections') >= Len(frame_detections)
          /\ SubSeq(frame_detections', 1, Len(frame_detections)) = frame_detections]_vars

\* C12 witness: the detector failed on the second anchor, the job returned a
\* result without 'error' that keeps the FrameResult stored before the failure.
C12_Witness ==
    /\ Done /\ IsJobResult(result)
    /\ Len(detector_log) >= 2
    /\ detector_log[1] # DetFail /\ detector_log[2] = DetFail
    /\ result.frame_detections[1].person_count > 0

\* C13: when process_video has returned, on whatever path, no decoder handle
\* and no encoder handle of the job is still open.
C13_NoHandleOpenOnReturn == Done => ~cap.opened /\ ~out.opened

\* C13, what the code does guarantee: at the normal end both handles have
\* been released; an unreadable source leaves no handle open either.
C13_ReleasedOnNormalEnd ==
    /\ IsJobResult(result) => ~cap.opened /\ ~out.opened
    /\ (Done /\ ~video.readable) => ~cap.opened /\ ~out.opened

\* C13, the leak: the job returned "no usable encoder" with the decoder open.
C13_DecoderLeftOpen ==
    Done /\ HasError(result) /\ result.error = "NoUsableEncoder" /\ cap.opened

\* C14: if the source cannot be opened the job returns an error result, and
\* no encoder is attempted, no frame is read, and neither the detector nor
\* the transcoder is ever invoked.
C14_UnreadableSourceStopsFirst ==
    ~video.readable =>
        /\ pc \in {"open_source", "done"}
        /\ ~cap.opened
        /\ attempts = << >> /\ ~out.present
        /\ frame_count = 0 /\ written = << >>
        /\ detector_calls = 0
        /\ transcode_modes = << >>
        /\ fs = NoFiles
        /\ Done => result = ErrorResult("SourceUnreadable")

\* C14 witness: a job with an output path on an unreadable source returned.
C14_Witness == Done /\ ~video.readable /\ requested_path # NoPath /\ HasError(result)

Abs(x) == IF x < 0 THEN 0 - x ELSE x
PersonSum == SumOver(frame_detections, "person_count")
DensitySum == SumOver(frame_detections, "density_percentage")
\* v (in hundredths) is num / den rounded to two decimals
IsRounded(v, num, den) == 2 * Abs(v * den - num) <= den

\* C15 as stated: in a job result the averages are exactly the sums over the
\* FrameResults divided by processed_frames (0 without FrameResults), and
\* total_persons is the sum of person_count over the FrameResults so far.
C15_ExactAverages ==
    /\ total_persons = PersonSum
    /\ IsJobResult(result) =>
          IF result.processed_frames = 0
          THEN result.average_person_count = 0 /\ result.average_density = 0
          ELSE /\ result.average_person_count * result.processed_frames
                     = 100 * PersonSum
               /\ result.average_density * result.processed_frames = DensitySum

\* C15 amended: in a job result the averages are the sums over the
\* FrameResults divided by processed_frames and rounded to two decimals
\* (0 without FrameResults, average_density within [0, 100]), and
\* total_persons is the sum of person_count over the FrameResults so far.
C15_RoundedAverages ==
    /\ total_persons = PersonSum
    /\ IsJobResult(result) =>
          /\ result.processed_frames = Len(frame_detections)
          /\ IF result.processed_frames = 0
             THEN result.average_person_count = 0 /\ result.average_density = 0
             ELSE /\ IsRounded(result.average_person_count, 100 * PersonSum,
                               result.processed_frames)
                  /\ IsRounded(result.average_density, DensitySum,
                               result.processed_frames)
          /\ result.average_density >= 0 /\ result.average_density <= 100 * 100

\* C15 witness: a job result over three FrameResults with two persons in all
\* (the average 0.666... is reported as 0.67).
C15_Witness ==
    /\ IsJobResult(result)
    /\ result.processed_frames = 3
    /\ total_persons = 2
    /\ result.average_person_count = 67

ResultIfTranscoded ==
    JobResult(total_frames, frame_detections, total_persons, pre_transcode.path,
              ReencodeToH264(pre_transcode.fs, pre_transcode.path, "ok").fs)

\* C18: every failure of a stage leaves a signal in the returned result: an
\* unreadable source, a failed negotiation and a failed write give 'error', a
\* detector failure an 'error' entry in a listed FrameResult, and a failed
\* transcode a result that differs from the one of the successful transcode.
C18_EveryFailureVisible ==
    Done =>
        /\ ~video.readable => HasError(result)
        /\ codec_idx > Len(fourcc_options) => HasError(result)
        /\ (out.present /\ Len(written) < frame_count) => HasError(result)
        /\ (IsJobResult(result) /\ FailedCalls # {}) =>
              \E k \in 1..Len(result.frame_detections) : result.frame_detections[k].error
        /\ (IsJobResult(result) /\ Reencoded /\ LastMode \in FailureModes) =>
              result # ResultIfTranscoded

\* C18, the silent failure: the transcoder failed and the job returned
\* exactly the result of a successful transcode.
C18_SilentTranscodeFailure ==
    /\ Done /\ IsJobResult(result)
    /\ Reencoded /\ LastMode \in FailureModes
    /\ result = ResultIfTranscoded

FileWritten == out.present /\ ~out.opened /\ Exists(pre_transcode.fs, pre_transcode.path)

\* C19 as stated: every job that completed the write of its output file runs
\* the transcode exactly once.
C19_OncePerWrittenFile ==
    (pc \in {"summary", "done"} /\ FileWritten) => Len(transcode_modes) = 1

\* C19 amended: the transcode step runs exactly once in every job whose
\* writer was released, whose output file exists and whose output path ends
\* in .mp4, and in no other job (never for an unreadable source, a failed
\* negotiation or a missing output path, nor for an .avi or other output);
\* it always runs after the decoder and the writer have been released.
C19_OncePerMp4File ==
    /\ Len(transcode_modes) <= 1
    /\ Reencoded =>
          /\ pc \in {"summary", "done"}
          /\ video.readable /\ requested_path # NoPath
          /\ out.present /\ ~out.opened /\ ~cap.opened
    /\ pc \in {"summary", "done"} =>
          (Reencoded <=> (FileWritten /\ EndsWith(pre_transcode.path, ".mp4")))

\* C19 witness: a job wrote an .avi file and returned without a transcode,
\* the case the amendment is about.
C19_Witness ==
    /\ Done /\ IsJobResult(result) /\ FileWritten
    /\ ~EndsWith(pre_transcode.path, ".mp4")
    /\ ~Reencoded

\* C20: the job summary is computed once, after the decoder and the writer
\* have been released and after the transcode step (when it is due) has
\* returned; output_video and output_exists describe the path and the file
\* as they are when the job returns.
C20_SummaryLast ==
    /\ [](pc = "summary" =>
            /\ result = NoResult
            /\ ~cap.opened /\ ~out.opened
            /\ WantsReencode(out, pre_transcode.fs, pre_transcode.path) => Reencoded)
    /\ [](IsJobResult(result) =>
            /\ Done
            /\ ~cap.opened /\ ~out.opened
            /\ WantsReencode(out, pre_transcode.fs, pre_transcode.path) => Reencoded
            /\ result.output_video = output_path
            /\ result.output_exists = (output_path # NoPath /\ Exists(fs, output_path)))
    /\ [][(result # NoResult => result' = result)
          /\ (IsJobResult(result') /\ result' # result => pc = "summary")]_vars

\* C20 witness: the transcode replaced the file and the summary reports it.
C20_Witness ==
    /\ IsJobResult(result)
    /\ Reencoded /\ LastMode = "ok"
    /\ result.output_exists
    /\ fs[result.output_video] = "h264"
    /\ result.processed_frames > 0

\* ------------------------------------------- the two detection entry points
\* One call of process_video_frame or detect_persons on one image: video
\* holds the image (readable as a file or not, its shape, what it shows),
\* result the returned dictionary.
Sides == {k * SideStep : k \in 1..MaxSideSteps}
Images == [readable : BOOLEAN, shape : Sides \X Sides, scene : (0..MaxPersons) \cup {DetFail}]

DensityInit ==
    \E image \in Images :
        /\ video = image
        /\ pc = "call"
        /\ result = NoResult
        /\ frame_interval = 1
        /\ requested_path = NoPath
        /\ cap = [opened |-> FALSE]
        /\ total_frames = 0
        /\ frame_detections = << >>
        /\ total_persons = 0
        /\ frame_count = 0
        /\ out = NoWriter
        /\ used_codec = "none"
        /\ output_path = NoPath
        /\ codec_idx = 1
        /\ attempts = << >>
        /\ last_detections = NoDetections
        /\ written = << >>
        /\ fs = NoFiles
        /\ detector_calls = 0
        /\ detector_log = << >>
        /\ transcode_modes = << >>
        /\ pre_transcode = [fs |-> NoFiles, path |-> NoPath]
        /\ other = NoJob

\* process_video_frame on the decoded image
CallProcessVideoFrame ==
    /\ pc = "call"
    /\ result' = ProcessVideoFrame(0, video.scene, video.shape[1] * video.shape[2])
    /\ pc' = "returned_frame"
    /\ detector_calls' = detector_calls + 1
    /\ detector_log' = Append(detector_log, video.scene)
    /\ UNCHANGED <<other, video, frame_interval, requested_path, cap, total_frames,
                   frame_detections, total_persons, frame_count, out,
                   used_codec, output_path, codec_idx, attempts,
                   last_detections, written, fs, transcode_modes, pre_transcode>>

\* detect_persons on the image file; the detector runs only on a readable one
CallDetectPersons ==
    /\ pc = "call"
    /\ result' = DetectPersons(video.readable, video.scene, video.shape)
    /\ pc' = "returned_image"
    /\ detector_calls' = IF video.readable THEN detector_calls + 1 ELSE detector_calls
    /\ detector_log' = IF video.readable THEN Append(detector_log, video.scene)
                       ELSE detector_log
    /\ UNCHANGED <<other, video, frame_interval, requested_path, cap, total_frames,
                   frame_detections, total_persons, frame_count, out,
                   used_codec, output_path, codec_idx, attempts,
                   last_detections, written, fs, transcode_modes, pre_transcode>>

DensityNext == CallProcessVideoFrame \/ CallDetectPersons

DensitySpec == DensityInit /\ [][DensityNext]_vars

Returned == pc \in {"returned_frame", "returned_image"}
ImageArea == video.shape[1] * video.shape[2]

\* C17 as stated: every detection result has person_count >= 0 and a
\* density in [0, 100] that is 0 for no person, exactly
\* min(100, person_count * 7500 * 100 / area) otherwise, and exactly 100 once
\* person_count * 7500 >= area.
C17_ExactDensity ==
    Returned =>
        /\ result.person_count >= 0
        /\ result.density_percentage >= 0 /\ result.density_percentage <= 100 * 100
        /\ result.person_count = 0 => result.density_percentage = 0
        /\ result.density_percentage * ImageArea
              = Min(100 * 100 * ImageArea, result.person_count * PersonArea * 100 * 100)
        /\ result.person_count * PersonArea >= ImageArea =>
              result.density_percentage = 100 * 100

\* C17 amended: every detection result (process_video_frame and
\* detect_persons) has person_count >= 0 and a density in [0, 100] that is a
\* function of person_count and area: 0 for no person (and for a failed
\* detection), min(100, person_count * 7500 * 100 / area) rounded to two
\* decimals otherwise, and exactly 100 once person_count * 7500 >= area.
C17_RoundedDensity ==
    Returned =>
        /\ result.person_count >= 0
        /\ result.density_percentage >= 0 /\ result.density_percentage <= 100 * 100
        /\ result.person_count = 0 => result.density_percentage = 0
        /\ result.error => result.person_count = 0
        /\ ~result.error => result.person_count = video.scene
        /\ IF result.person_count * PersonArea >= ImageArea
           THEN result.density_percentage = 100 * 100
           ELSE IsRounded(result.density_percentage,
                          result.person_count * PersonArea * 100 * 100, ImageArea)

\* C17 witness: detect_persons returned a density below saturation that is
\* not a whole number of hundredths before rounding.
C17_Witness ==
    /\ pc = "returned_image"
    /\ ~result.error
    /\ result.person_count >= 2
    /\ result.person_count * PersonArea < ImageArea
    /\ result.density_percentage * ImageArea
          # result.person_count * PersonArea * 100 * 100

\* C17, saturation: process_video_frame returned exactly 100 for a frame
\* smaller than the estimated area of the persons on it.
C17_Saturated ==
    /\ pc = "returned_frame"
    /\ result.person_count * PersonArea > ImageArea
    /\ result.density_percentage = 100 * 100

\* ---------------------------------------------------- the written stream
\* C21: with a writer opened (and no write having failed), every frame read
\* from the source is written exactly once and in decode order: after k reads
\* there are k written frames and the j-th written frame derives from the
\* j-th decoded frame, on anchor and non-anchor frames alike.
C21_EveryFrameWrittenInOrder ==
    (out.present /\ ~WriteFailed) =>
        /\ Len(written) = frame_count
        /\ \A j \in 1..Len(written) : written[j].src = j

\* C21 for sources with fps >= 1: the written stream follows the reads.
C21_WhenFpsPositive == video.fps >= 1 => C21_EveryFrameWrittenInOrder

\* C21, the lost frame: the job read and analysed an anchor frame of a
\* source with fps = 0 and ended without writing it.
C21_FrameReadNotWritten ==
    /\ Done /\ out.present /\ ~WriteFailed
    /\ video.fps = 0
    /\ frame_count >= 2
    /\ Len(written) = frame_count - 1
    /\ detector_calls >= 1

\* C22: every written frame that carries detections, anchor or propagated,
\* has one rectangle and one text label per detection, and derives from the
\* decoded frame of its own index (the annotation is made on a copy).
C22_RectangleAndLabelPerDetection ==
    \A j \in 1..Len(written) :
        /\ written[j].src = j
        /\ written[j].boxes # << >> => written[j].labels = Len(written[j].boxes)

\* C22 for propagated frames: the frames annotated in the loop of
\* process_video carry one rectangle and one label per detection.
C22_PropagatedFramesLabelled ==
    \A j \in 1..Len(written) :
        (~IsAnchor(j, frame_interval) /\ written[j].boxes # << >>) =>
            written[j].labels = Len(written[j].boxes)

\* C22, the unlabelled anchor: an anchor frame with detections was written
\* with its rectangles and no label.
C22_AnchorWithoutLabels ==
    \E j \in 1..Len(written) :
        /\ IsAnchor(j, frame_interval)
        /\ Len(written[j].boxes) >= 1
        /\ written[j].labels = 0

\* C24: process_video always returns a dictionary: a job result with
\* total_frames, processed_frames, the averages, output_video and
\* output_exists and no 'error', or an error result with 'error',
\* total_frames = 0 and processed_frames = 0 whatever had been read,
\* detected or written before the failure; every failure ends the job.
C24_AlwaysReturnsDictionary ==
    /\ [](~Done => result = NoResult)
    /\ [](Done =>
            \/ /\ IsJobResult(result) /\ ~HasError(result)
               /\ DOMAIN result = {"total_frames", "processed_frames",
                                   "average_person_count", "average_density",
                                   "frame_detections", "output_video",
                                   "output_exists"}
            \/ /\ HasError(result) /\ ~IsJobResult(result)
               /\ DOMAIN result = {"error", "total_frames", "processed_frames"}
               /\ result.total_frames = 0
               /\ result.processed_frames = 0)
    /\ [][HasError(result') /\ ~HasError(result) => pc' = "done"]_vars

\* C24 witness: a write failed after frames had been read, detected and
\* written, and the error result reports zeros.
C24_Witness ==
    /\ Done /\ HasError(result)
    /\ total_frames >= 2
    /\ Len(frame_detections) >= 1
    /\ Len(written) >= 1
    /\ result.total_frames = 0 /\ result.processed_frames = 0

\* ------------------------------------------------------------ upload_video
\* The response of upload_video after process_video returned res for the
\* output path the handler asked for, the files being f.  File names stand
\* for the paths: every path of the model lies in uploads/processed.
UploadVideo(path, res, f) ==
    IF HasError(res)
    THEN [status |-> 500, error |-> "Video processing failed"]
    ELSE IF res.processed_frames = 0
    THEN [status |-> 500, error |-> "No frames were processed from the video"]
    ELSE LET output_exists == res.output_exists \/ Exists(f, path)
         IN  [status |-> 200,
              output_file_exists |-> output_exists,
              processed_video_url |-> IF output_exists THEN path ELSE NoPath,
              output_filename |-> IF output_exists THEN path ELSE NoPath,
              processed_image_path |-> IF Exists(f, path) THEN path ELSE NoPath]

\* the job is one upload_video starts, and it has returned
Uploaded == Done /\ frame_interval = 5 /\ requested_path # NoPath
Response == UploadVideo(requested_path, result, fs)

C25_WhenPathKept ==
    (Uploaded /\ Response.status = 200 /\ Response.output_file_exists
       /\ result.output_video = requested_path) =>
        /\ Response.processed_video_url = result.output_video
        /\ Response.processed_image_path = result.output_video
        /\ Exists(fs, Response.processed_video_url)

\* C25, the dangling URL: the file was produced as out.avi and the response
\* reports it under the .mp4 name that was asked for, where no file is.
C25_UrlNamesMissingFile ==
    /\ Uploaded /\ Response.status = 200 /\ Response.output_file_exists
    /\ requested_path = <<"out", ".mp4">>
    /\ result.output_video = <<"out", ".avi">>
    /\ Exists(fs, result.output_video)
    /\ Response.processed_video_url = <<"out", ".mp4">>
    /\ ~Exists(fs, Response.processed_video_url)
    /\ Response.processed_image_path = NoPath

\* ------------------------------------------------------- interleaved jobs
\* what the detector returned to job s on its anchor frame a
OwnDetections(s, a) ==
    ProcessVideoFrame(a, s.detector_log[a \div s.frame_interval], FrameArea).detections

\* the job with locals s has used its own frames only
OwnFramesOnly(s) ==
    /\ Len(s.detector_log) = s.detector_calls
    /\ \A k \in 1..Len(s.detector_log) : s.detector_log[k] \in s.video.scene
    /\ Len(s.frame_detections) = s.frame_count \div s.frame_interval
    /\ \A k \in 1..Len(s.frame_detections) :
          LET r == s.frame_detections[k]
          IN  /\ r.frame_number = k * s.frame_interval
              /\ r.person_count = IF s.detector_log[k] = DetFail THEN 0
                                  ELSE s.detector_log[k]
              /\ r.detections = OwnDetections(s, k * s.frame_interval)
    /\ s.total_persons = SumOver(s.frame_detections, "person_count")
    /\ \A j \in 1..Len(s.written) :
          LET w == s.written[j]
              a == (j \div s.frame_interval) * s.frame_interval
          IN  /\ w.src = j
              /\ w.boxes = IF a = 0 THEN << >> ELSE OwnDetections(s, a)
              /\ Len(w.boxes) \in {0} \cup s.video.scene
    /\ IsJobResult(s.result) =>
          /\ s.result.processed_frames = Len(s.frame_detections)
          /\ IsRounded(s.result.average_person_count,
                       100 * SumOver(s.frame_detections, "person_count"),
                       Len(s.frame_detections))
          /\ IsRounded(s.result.average_density,
                       SumOver(s.frame_detections, "density_percentage"),
                       Len(s.frame_detections))

\* C23: two process_video jobs interleaved on the shared instance do not
\* cross-contaminate: the detections drawn on a frame of a job are those of
\* the latest anchor frame of the same job (or none), and its FrameResults,
\* counters and averages come from its own frames only.
C23_NoCrossContamination ==
    /\ other # NoJob
    /\ OwnFramesOnly(Running)
    /\ OwnFramesOnly(other)

\* C23 witness: both jobs are in their frame loops, each past an anchor
\* frame and a propagated frame that carries its own boxes.
C23_Witness ==
    /\ pc = "loop" /\ other.pc = "loop"
    /\ \E j \in 1..Len(written) :
          /\ ~IsAnchor(j, frame_interval)
          /\ Len(written[j].boxes) = 1
    /\ \E j \in 1..Len(other.written) :
          /\ ~IsAnchor(j, other.frame_interval)
          /\ Len(other.written[j].boxes) = MaxDet
    /\ frame_count < video.frames /\ other.frame_count < other.video.frames

====
